---- MODULE Spec2Model ----
(***************************************************************************)
(* TodoAI frontend: ChatInterface, ModeToggle, UIActionExecutor,           *)
(* AddTaskForm, AppContent.fetchTasks, TaskList and AuthProvider, as state  *)
(* machines over the React state, localStorage, the window globals and the *)
(* requests in flight.                                                     *)
(*                                                                         *)
(* React 18 (src/README.md:63): the state updates of one synchronous       *)
(* segment of a handler are batched into one re-render, and the passive    *)
(* effects of that render run before the next event is handled.  An action *)
(* of the model is one such segment together with the render and effects   *)
(* it causes.                                                              *)
(***************************************************************************)
EXTENDS Integers, Sequences, FiniteSets, TLC

VARIABLES
    \* ---- ChatInterface (src/unnamed/part_003:88-99)
    messages,           \* sequence of message kinds
    input,              \* text of the message input
    loading,
    uiActions,          \* the batch handed to UIActionExecutor, or NoBatch (null)
    assistantMode,
    chatReq,            \* the chat request in flight
    timers,             \* pending setTimeout(onTaskUpdate, 500)
    \* ---- ModeToggle (src/unnamed/part_002:49-50) and localStorage
    mode,
    lsMode,             \* localStorage 'assistantMode'
    \* ---- AppContent (src/frontend/src/App.jsx:108-114)
    tasks,
    isLoading,
    error,
    fetches,            \* fetchTasks requests in flight
    fetchQ,             \* their bearer tokens, in the order they were sent
    tasksBy,            \* the bearer of the fetchTasks whose data tasks holds
    serverTasks,        \* the task list held by the server
    \* ---- AddTaskForm (src/unnamed/part_002:184-189)
    title,
    isExpanded,
    isSubmitting,
    posts,              \* create-task POSTs in flight
    \* ---- TaskList (src/frontend/src/components/TaskList.jsx:140)
    filter,
    \* ---- UIActionExecutor (src/frontend/src/components/UIActionExecutor.jsx)
    runs,               \* the executeAllActions calls that have not ended
    isAutomatedAction,  \* window.isAutomatedAction
    executed,           \* per action of the current batch: times executed
    submits,            \* add-task submissions made by the current batch
    lastAct,            \* what the action replayed last did to the DOM
    \* ---- AuthProvider (src/frontend/src/context/AuthContext.jsx:8-11)
    token,              \* localStorage 'token'
    isAuthenticated,
    user,
    authLoading,
    authOp,             \* the login call in flight and its last result
    \* ---- requests sent to the tasks and chat API
    lastReq,
    status,             \* TaskList.handleStatusChange in flight
    \* ---- the tasks prop of TaskList (src/frontend/src/components/TaskList.jsx:139)
    taskList,
    editingTask,        \* TaskList's editingTask: a task id, or 0 (null)
    calls,              \* the handleStatusChange calls that have not ended
    serverList,         \* the tasks the server holds, with their statuses
    \* ---- the browser
    mountMode,          \* the mode ChatInterface started in at the last page load
    \* ---- ThemeProvider (src/unnamed/part_001:160-193), localStorage, the system
    theme,
    lsTheme,            \* localStorage 'theme'
    prefersDark,        \* matchMedia('(prefers-color-scheme: dark)').matches
    queuedTheme,        \* the setTheme of the mount effect not rendered yet, or "none"
    savedAtMount,       \* what getInitialTheme read from localStorage at the last mount
    \* ---- request router (backend)
    routed

chatVars == <<messages, input, loading, uiActions, assistantMode, chatReq, timers>>
modeVars == <<mode, lsMode>>
appVars  == <<tasks, isLoading, error, fetches, fetchQ, tasksBy, serverTasks>>
formVars == <<title, isExpanded, isSubmitting, posts>>
execVars == <<runs, isAutomatedAction, executed, submits, lastAct>>
authVars == <<token, isAuthenticated, user, authLoading, authOp>>
reqVars  == <<lastReq, status>>
themeVars == <<theme, lsTheme, prefersDark, queuedTheme, savedAtMount>>
pureVars == <<taskList, editingTask, calls, serverList, mountMode, themeVars>>
vars == <<chatVars, modeVars, appVars, formVars, filter, execVars, authVars,
          reqVars, pureVars, routed>>

----------------------------------------------------------------------------
(* Bounds *)

MaxSend == 1        \* chat messages sent per page load
MaxRuns == 2        \* executeAllActions calls alive at once
MaxFetch == 2       \* fetchTasks requests in flight at once
MaxTasks == 1       \* tasks the server holds
MaxCount == 2       \* the execution counters saturate here
MaxLen == 3         \* tasks in the list given to TaskList
MaxInFlight == 1    \* requests in flight when the user starts another (SpecApp)

----------------------------------------------------------------------------
(* JavaScript values *)

\* null / undefined / '' are falsy; every other string is truthy
Falsy == {"", "null", "undefined"}
Truthy(s) == s \notin Falsy

\* String.prototype.trim on the input texts of the model
Trim(s) == IF s = " " THEN "" ELSE s

\* a JSON value that is an array of items, or is not an array (undefined)
Arr(s) == [isArray |-> TRUE, items |-> s]
Undef == [isArray |-> FALSE, items |-> <<>>]

----------------------------------------------------------------------------
(* The UI actions and the chat responses the server may send *)

Act(type, target, data) ==
    [js |-> "object", type |-> type, target |-> target, data |-> data]

\* an entry of an actions array that is null
NullAct == [js |-> "null", type |-> "", target |-> "", data |-> ""]

FillThenAdd == << Act("fill_form", "add_task_form", "t"),
                  Act("click", "add_task_button", "") >>
ClickTwice  == << Act("click", "completed_tasks_filter", ""),
                  Act("click", "completed_tasks_filter", "") >>
SearchFill  == << Act("search", "task_title_input", "q"),
                  Act("fill_form", "task_section", "t") >>

UiBatches == {FillThenAdd, ClickTwice, SearchFill}

\* entries of data.actions
Entry(type) == [js |-> "object", type |-> type, uiActions |-> Undef]
UiEntry(b)  == [js |-> "object", type |-> "ui_actions", uiActions |-> Arr(b)]
NullEntry   == [js |-> "null", type |-> "", uiActions |-> Undef]

ActionLists ==
    { Undef, Arr(<<>>), Arr(<<Entry("task_added")>>), Arr(<<Entry("conversation")>>),
      Arr(<<UiEntry(ClickTwice)>>), Arr(<<UiEntry(<<>>)>>), Arr(<<NullEntry>>) }

\* status: the fetch resolved ok, or it failed (non-ok status, network error);
\* json: the body parsed to an object, or to null
Responses ==
    [status : {"ok"}, json : {"object"},
     uiActions : {Undef} \cup {Arr(b) : b \in UiBatches}, actions : ActionLists]
    \cup { [status |-> "fail", json |-> "object", uiActions |-> Undef, actions |-> Undef],
           [status |-> "ok", json |-> "null", uiActions |-> Undef, actions |-> Undef] }

Modes == {"plan", "act"}
InputTexts == {"", " ", "hi"}
Titles == {"", " ", "t"}

----------------------------------------------------------------------------
(* ChatInterface and UIActionExecutor: render and effect *)

NoBatch == [set |-> FALSE, acts |-> <<>>, mode |-> "none", id |-> 0]

\* mode and id are not part of the array: they record the message the batch
\* came from (the assistant_mode of its request and its number)
Batch(acts, m, n) == [set |-> TRUE, acts |-> acts, mode |-> m, id |-> n]

RECURSIVE UniqueFrom(_, _)
UniqueFrom(s, seen) ==
    IF s = <<>> THEN <<>>
    ELSE IF Head(s) \in seen THEN UniqueFrom(Tail(s), seen)
    ELSE <<Head(s)>> \o UniqueFrom(Tail(s), seen \cup {Head(s)})

\* uniqueActions: the first occurrence of each JSON.stringify(action)
UniqueActions(acts) == UniqueFrom(acts, {})

\* the effect passes `!actions || actions.length === 0`
EffectStarts(ua) == ua.set /\ Len(ua.acts) > 0

NewRun(ua) ==
    [acts |-> UniqueActions(ua.acts), i |-> 1, ph |-> "idle",
     mode |-> ua.mode, id |-> ua.id]

\* A re-render of ChatInterface passes a new onComplete function, so the effect
\* [actions, onComplete] runs again: cleanup of the previous effect, then a new
\* executeAllActions() that nothing stops the previous one for.
RunsAfterRender(rs, ua) == IF EffectStarts(ua) THEN Append(rs, NewRun(ua)) ELSE rs

FlagAfterRender(flag, before, after) ==
    IF EffectStarts(after) THEN TRUE
    ELSE IF EffectStarts(before) THEN FALSE
    ELSE flag

CanRender(ua) == EffectStarts(ua) => Len(runs) < MaxRuns

ZeroCounts(ua) == [k \in 1..Len(UniqueActions(ua.acts)) |-> 0]

\* ChatInterface re-renders with uiActions unchanged
RenderSame ==
    /\ CanRender(uiActions)
    /\ runs' = RunsAfterRender(runs, uiActions)
    /\ isAutomatedAction' = FlagAfterRender(isAutomatedAction, uiActions, uiActions)
    /\ UNCHANGED <<executed, submits, lastAct>>

\* ChatInterface re-renders after setUiActions(ua)
RenderWith(rs, ua) ==
    /\ EffectStarts(ua) => Len(rs) < MaxRuns
    /\ runs' = RunsAfterRender(rs, ua)
    /\ isAutomatedAction' = FlagAfterRender(isAutomatedAction, uiActions, ua)
    /\ executed' = ZeroCounts(ua)
    /\ submits' = 0
    /\ UNCHANGED lastAct

----------------------------------------------------------------------------
(* Requests to the tasks API and the assistant chat API *)

\* the token fetchTasks, AddTaskForm, TaskList and ChatInterface fall back to
Hardcoded == "hardcoded"

\* localStorage.getItem('token') when nothing is stored
NoToken == "null"

\* a plausible slip: no fallback, as in the earlier TaskList's
\* `Bearer ${localStorage.getItem('token')}`
AuthToken_Stored(t) == t

\* `localStorage.getItem('token') || hardcodedToken`
AuthToken(t) == IF Truthy(t) THEN t ELSE Hardcoded

\* a request as sent: its Authorization bearer, what its handler had read from
\* localStorage for it, and what localStorage holds when it is sent
Sent(api, bearer, read) == [api |-> api, bearer |-> bearer, read |-> read, stored |-> token]

\* tasks is still the initial empty array: no fetchTasks has filled it
NoFetch == "none"

NoReq == [api |-> "none", bearer |-> "", read |-> NoToken, stored |-> NoToken]

----------------------------------------------------------------------------
(* AppContent.fetchTasks *)

\* the synchronous start of fetchTasks(): setIsLoading(true), setError(null),
\* the GET is sent
FetchStart ==
    /\ fetches < MaxFetch
    /\ isLoading' = TRUE
    /\ error' = ""
    /\ fetches' = fetches + 1
    /\ fetchQ' = Append(fetchQ, AuthToken(token))
    /\ lastReq' = Sent("list", AuthToken(token), token)
    /\ UNCHANGED <<tasks, tasksBy, serverTasks>>

\* AppContent re-renders (and ChatInterface under it) when its state changed
AppChanged == isLoading' # isLoading \/ error' # error \/ tasks' # tasks

----------------------------------------------------------------------------
(* ChatInterface *)

nSent == Len(SelectSeq(messages, LAMBDA m : m = "user"))

NoChat == [set |-> FALSE, mode |-> "none", n |-> 0]

\* onChange of the message input
TypeInput(v) ==
    /\ isAuthenticated
    /\ ~loading
    /\ v # input
    /\ input' = v
    /\ RenderSame
    /\ UNCHANGED <<messages, loading, uiActions, assistantMode, chatReq, timers>>
    /\ UNCHANGED <<modeVars, appVars, formVars, filter, authVars, reqVars, pureVars, routed>>

\* handleSendMessage up to the await of fetch
SendMessage ==
    /\ isAuthenticated
    /\ Truthy(Trim(input))
    /\ ~loading
    /\ nSent < MaxSend
    /\ messages' = Append(messages, "user")
    /\ input' = ""
    /\ loading' = TRUE
    /\ chatReq' = [set |-> TRUE, mode |-> assistantMode, n |-> nSent + 1]
    /\ lastReq' = Sent("chat", AuthToken(token), token)
    /\ RenderSame
    /\ UNCHANGED <<uiActions, assistantMode, timers, status>>
    /\ UNCHANGED <<modeVars, appVars, formVars, filter, authVars, pureVars, routed>>

RECURSIVE FindUiEntry(_)
\* data.actions.find(action => action && typeof action === 'object' &&
\*                             action.type === 'ui_actions')
FindUiEntry(items) ==
    IF items = <<>> THEN NullEntry
    ELSE IF Head(items).js = "object" /\ Head(items).type = "ui_actions" THEN Head(items)
    ELSE FindUiEntry(Tail(items))

\* the uiActions extraction: whether setUiActions is called, and with what
ExtractUiActions(data) ==
    IF data.uiActions.isArray /\ Len(data.uiActions.items) > 0
    THEN [called |-> TRUE, acts |-> data.uiActions.items]
    ELSE IF data.actions.isArray
         THEN LET e == FindUiEntry(data.actions.items)
              IN IF e.js = "object" /\ e.uiActions.isArray
                 THEN [called |-> TRUE, acts |-> e.uiActions.items]
                 ELSE [called |-> FALSE, acts |-> <<>>]
         ELSE [called |-> FALSE, acts |-> <<>>]

TaskActionTypes == {"task_added", "task_updated", "task_deleted", "tasks_listed"}

RECURSIVE SomeTaskAction(_)
\* data.actions.some(action => [...].includes(action.type)): reading .type of a
\* null entry throws a TypeError
SomeTaskAction(items) ==
    IF items = <<>> THEN "false"
    ELSE IF Head(items).js = "null" THEN "throws"
    ELSE IF Head(items).type \in TaskActionTypes THEN "true"
    ELSE SomeTaskAction(Tail(items))

\* a plausible slip: any non-empty actions array schedules the refresh
RefreshCheck_AnyAction(data) ==
    IF data.actions.isArray /\ Len(data.actions.items) > 0 THEN "true" ELSE "false"

\* the outcome of `if (data.actions && data.actions.length > 0) ...`
RefreshCheck(data) ==
    IF data.actions.isArray /\ Len(data.actions.items) > 0
    THEN SomeTaskAction(data.actions.items)
    ELSE "false"

Apology == "apology"

\* handleSendMessage from the resolution of fetch to the end of finally
ChatResponse(resp) ==
    /\ chatReq.set
    /\ chatReq' = NoChat
    /\ loading' = FALSE
    /\ IF resp.status # "ok" \/ resp.json = "null"
       THEN \* `throw new Error(...)`, or data.response of null: the catch block
            /\ messages' = Append(messages, Apology)
            /\ RenderSame
            /\ UNCHANGED <<uiActions, timers>>
       ELSE LET x == ExtractUiActions(resp)
                r == RefreshCheck(resp)
                ua == IF x.called THEN Batch(x.acts, chatReq.mode, chatReq.n)
                      ELSE uiActions
            IN /\ messages' = IF r = "throws"
                              THEN messages \o <<"reply", Apology>>
                              ELSE Append(messages, "reply")
               /\ uiActions' = ua
               /\ timers' = IF r = "true" THEN timers + 1 ELSE timers
               /\ IF x.called THEN RenderWith(runs, ua) ELSE RenderSame
    /\ UNCHANGED <<input, assistantMode>>
    /\ UNCHANGED <<modeVars, appVars, formVars, filter, authVars, reqVars, pureVars>>

\* the delayed onTaskUpdate() of a chat response: handleTaskUpdate -> fetchTasks
TimerFire ==
    /\ timers > 0
    /\ timers' = timers - 1
    /\ FetchStart
    /\ IF AppChanged THEN RenderSame ELSE UNCHANGED execVars
    /\ UNCHANGED <<messages, input, loading, uiActions, assistantMode, chatReq, status>>
    /\ UNCHANGED <<modeVars, formVars, filter, authVars, pureVars, routed>>

----------------------------------------------------------------------------
(* ModeToggle *)

\* a plausible slip: the default is the other mode
InitialMode_DefaultPlan(saved) == IF Truthy(saved) THEN saved ELSE "plan"

\* useState(() => localStorage.getItem('assistantMode') || 'act')
InitialMode(saved) == IF Truthy(saved) THEN saved ELSE "act"

\* ModeToggle after its mount effect: useState(initialMode || 'act'), then
\* setMode(savedMode) when something is saved
MountedMode(initialMode, saved) ==
    IF Truthy(saved) THEN saved
    ELSE IF Truthy(initialMode) THEN initialMode ELSE "act"

\* const newMode = mode === 'act' ? 'plan' : 'act'
NewMode(m) == IF m = "act" THEN "plan" ELSE "act"

\* a plausible slip: the new mode is not saved
ToggleMode_NoSave ==
    /\ isAuthenticated
    /\ mode' = NewMode(mode)
    /\ assistantMode' = NewMode(mode)
    /\ IF assistantMode' # assistantMode THEN RenderSame ELSE UNCHANGED execVars
    /\ UNCHANGED <<messages, input, loading, uiActions, chatReq, timers, lsMode>>
    /\ UNCHANGED <<appVars, formVars, filter, authVars, reqVars, pureVars, routed>>

\* toggleMode: setMode, localStorage.setItem, onChange -> setAssistantMode
ToggleMode ==
    /\ isAuthenticated
    /\ mode' = NewMode(mode)
    /\ lsMode' = NewMode(mode)
    /\ assistantMode' = NewMode(mode)
    /\ IF assistantMode' # assistantMode THEN RenderSame ELSE UNCHANGED execVars
    /\ UNCHANGED <<messages, input, loading, uiActions, chatReq, timers>>
    /\ UNCHANGED <<appVars, formVars, filter, authVars, reqVars, pureVars, routed>>

----------------------------------------------------------------------------
(* AppContent: the rest of fetchTasks, and what it renders *)

\* fetchTasks from the resolution of fetch: setTasks(data) or setError(...),
\* and setIsLoading(false) in finally
FetchDone(ok) ==
    /\ fetches > 0
    /\ fetches' = fetches - 1
    /\ \E i \in 1..Len(fetchQ) :
          /\ fetchQ' = SubSeq(fetchQ, 1, i - 1) \o SubSeq(fetchQ, i + 1, Len(fetchQ))
          /\ tasksBy' = IF ok THEN fetchQ[i] ELSE tasksBy
    /\ isLoading' = FALSE
    /\ IF ok THEN tasks' = serverTasks /\ error' = error
             ELSE error' = "Failed to fetch tasks" /\ tasks' = tasks
    /\ \* setTasks stores a new array: AppContent always re-renders
       IF ok \/ AppChanged THEN RenderSame ELSE UNCHANGED execVars
    /\ UNCHANGED serverTasks
    /\ UNCHANGED <<chatVars, modeVars, formVars, filter, authVars, reqVars, pureVars, routed>>

\* the Retry button, rendered in place of the task list while error is set
Retry ==
    /\ isAuthenticated /\ ~isLoading /\ Truthy(error)
    /\ FetchStart
    /\ IF AppChanged THEN RenderSame ELSE UNCHANGED execVars
    /\ UNCHANGED <<chatVars, modeVars, formVars, filter, authVars, status, pureVars, routed>>

\* AppContent renders AddTaskForm and ChatInterface when isAuthenticated, and
\* TaskList in place of 'Loading tasks...' and of the error box
AddTaskFormMounted == isAuthenticated
TaskListMounted == isAuthenticated /\ ~isLoading /\ ~Truthy(error)

\* the data-ui-target values in the document
InDocument(t) ==
    CASE t \in {"add_task_form", "task_title_input", "add_task_button"} -> AddTaskFormMounted
      [] t \in {"task_section", "completed_tasks_filter"} -> TaskListMounted
      [] OTHER -> FALSE

----------------------------------------------------------------------------
(* AddTaskForm *)

\* onChange of the title input (its onClick expands the form)
TypeTitle(v) ==
    /\ AddTaskFormMounted
    /\ v # title
    /\ title' = v
    /\ isExpanded' = TRUE
    /\ UNCHANGED <<isSubmitting, posts>>
    /\ UNCHANGED <<chatVars, modeVars, appVars, filter, execVars, authVars, reqVars, pureVars, routed>>

\* `!title || !title.trim()`
EmptyTitle(t) == ~Truthy(t) \/ ~Truthy(Trim(t))

\* handleSubmit up to the await of fetch; a submission with an empty title
\* returns early unless window.isAutomatedAction is set
HandleSubmit ==
    IF EmptyTitle(title) /\ ~isAutomatedAction
    THEN UNCHANGED <<formVars, reqVars>>
    ELSE /\ isSubmitting' = TRUE
         /\ posts' = Append(posts, title)
         /\ lastReq' = Sent("create", AuthToken(token), token)
         /\ UNCHANGED <<title, isExpanded, status>>

\* the user presses the Add Task button (disabled while isSubmitting)
UserSubmit ==
    /\ AddTaskFormMounted
    /\ ~isSubmitting
    /\ HandleSubmit
    /\ UNCHANGED <<chatVars, modeVars, appVars, filter, execVars, authVars, pureVars, routed>>

\* handleSubmit from the resolution of the POST: on response.ok the form is
\* reset and onTaskAdded() starts fetchTasks; finally setIsSubmitting(false)
PostDone(ok) ==
    /\ posts # <<>>
    /\ posts' = Tail(posts)
    /\ isSubmitting' = FALSE
    /\ IF ok
       THEN /\ serverTasks < MaxTasks
            /\ title' = ""
            /\ isExpanded' = FALSE
            /\ fetches < MaxFetch
            /\ isLoading' = TRUE
            /\ error' = ""
            /\ fetches' = fetches + 1
            /\ fetchQ' = Append(fetchQ, AuthToken(token))
            /\ lastReq' = Sent("list", AuthToken(token), token)
            /\ serverTasks' = serverTasks + 1
            /\ UNCHANGED <<tasks, tasksBy>>
            /\ IF AppChanged THEN RenderSame ELSE UNCHANGED execVars
       ELSE UNCHANGED <<title, isExpanded, appVars, lastReq, execVars>>
    /\ UNCHANGED <<chatVars, modeVars, filter, authVars, status, pureVars, routed>>

----------------------------------------------------------------------------
(* UIActionExecutor: executeAllActions and executeAction, one step per        *)
(* synchronous segment.  A run is at action i of its uniqueActions; ph is     *)
(* "idle" between actions (the 300/400 ms waits), "fin" once the loop ended   *)
(* and setTimeout(onComplete, 200) is pending, and inside executeAction:      *)
(*   "busy"       navigateTo / fillForm awaiting their highlight and delays   *)
(*   "lookup"     clickElement awaiting the 100 ms before its first lookup    *)
(*   "retry"      clickElement awaiting the 300 ms before its second lookup   *)
(*   "clicking"   clickElement holding the element, awaiting the highlight    *)
(*   "filling"    fillForm holding the container, before it fills the fields  *)
(*   "searching"  searchFor holding the field, awaiting the highlight         *)

Executing == {"busy", "lookup", "retry", "clicking", "filling", "searching"}

Min(a, b) == IF a < b THEN a ELSE b

RemoveRun(k) == SubSeq(runs, 1, k - 1) \o SubSeq(runs, k + 1, Len(runs))

\* the run is of the batch ChatInterface holds now
OfCurrentBatch(r) == uiActions.set /\ r.id = uiActions.id

NoAct == [type |-> "none", target |-> "", found |-> FALSE, events |-> {}]

\* what an action did: whether an element tagged with its target was found, and
\* the events it dispatched, each with the data-ui-target of its element
Did(a, found, events) ==
    [type |-> a.type, target |-> a.target, found |-> found, events |-> events]

Ev(elem, ev) == [elem |-> elem, ev |-> ev]

Step(k, ph) == [runs EXCEPT ![k].ph = ph]
Finished(k) == [runs EXCEPT ![k].ph = "idle", ![k].i = @ + 1]

\* a plausible slip: the direct setter used for any target
DirectFill_AnyTarget(a) == AddTaskFormMounted

\* fillForm: `window.setTaskFormValues && target === 'add_task_form'`; the
\* setter is installed by AddTaskForm's mount effect and removed by its cleanup
DirectFill(a) == AddTaskFormMounted /\ a.target = "add_task_form"

\* a target that makes `[data-ui-target="${target}"]` an invalid selector:
\* document.querySelector throws a SyntaxError
BadSelector == "a\"b"
Malformed(t) == t = BadSelector

\* action.data missing from the JSON: setTaskFormValues(undefined) throws on
\* formData.title, Object.entries(undefined) throws too
NoData == "undefined"

\* the action throws in the synchronous segment that starts it
Throws(a) ==
    \/ a.type \in {"navigate", "fill_form", "search"} /\ Truthy(a.target)
          /\ Malformed(a.target)
    \/ a.type = "fill_form" /\ DirectFill(a) /\ a.data = NoData

\* a plausible slip: the error leaves executeAction and reaches the catch of
\* executeAllActions, which ends the loop
Caught_EndsLoop(k) == [runs EXCEPT ![k].ph = "idle", ![k].i = Len(runs[k].acts) + 1]

\* an error thrown by an action is caught by the try/catch of navigateTo,
\* clickElement and fillForm, or by that of executeAction (searchFor has
\* none): executeAction returns and the loop goes on
Caught(k) == [runs EXCEPT ![k].ph = "idle", ![k].i = @ + 1]

\* executeAction(uniqueActions[i]) up to its first await
ExecStart(k) ==
    /\ k \in 1..Len(runs)
    /\ runs[k].ph = "idle"
    /\ runs[k].i <= Len(runs[k].acts)
    /\ LET r == runs[k]
           a == r.acts[r.i]
           found == InDocument(a.target)
           direct == DirectFill(a)
       IN /\ executed' = IF OfCurrentBatch(r)
                         THEN [executed EXCEPT ![r.i] = Min(@ + 1, MaxCount)]
                         ELSE executed
          /\ CASE a.js # "object" \/ ~Truthy(a.type) ->
                    \* 'Invalid action object': return
                    runs' = Finished(k) /\ UNCHANGED <<lastAct, title, isExpanded>>
               [] a.js = "object" /\ Truthy(a.type) /\ Throws(a) ->
                    runs' = Caught(k) /\ UNCHANGED <<lastAct, title, isExpanded>>
               [] a.js = "object" /\ a.type = "navigate" ->
                    /\ runs' = IF Truthy(a.target) /\ found THEN Step(k, "busy")
                               ELSE Finished(k)
                    /\ lastAct' = IF Truthy(a.target) THEN Did(a, found, {}) ELSE lastAct
                    /\ UNCHANGED <<title, isExpanded>>
               [] a.js = "object" /\ a.type = "click" ->
                    /\ runs' = IF Truthy(a.target) THEN Step(k, "lookup") ELSE Finished(k)
                    /\ UNCHANGED <<lastAct, title, isExpanded>>
               [] a.js = "object" /\ a.type = "fill_form" ->
                    IF direct
                    THEN \* window.setTaskFormValues(data)
                         /\ title' = IF Truthy(a.data) THEN a.data ELSE title
                         /\ isExpanded' = TRUE
                         /\ runs' = Step(k, "busy")
                         /\ lastAct' = Did(a, found, {})
                    ELSE /\ runs' = IF found THEN Step(k, "filling") ELSE Finished(k)
                         /\ lastAct' = IF found THEN lastAct ELSE Did(a, FALSE, {})
                         /\ UNCHANGED <<title, isExpanded>>
               [] a.js = "object" /\ a.type = "search" ->
                    /\ runs' = IF found THEN Step(k, "searching") ELSE Finished(k)
                    /\ lastAct' = IF found THEN lastAct ELSE Did(a, FALSE, {})
                    /\ UNCHANGED <<title, isExpanded>>
               [] OTHER ->
                    \* 'Unknown action type'
                    runs' = Finished(k) /\ UNCHANGED <<lastAct, title, isExpanded>>
    /\ UNCHANGED <<isAutomatedAction, submits, isSubmitting, posts>>
    /\ UNCHANGED <<chatVars, modeVars, appVars, filter, authVars, reqVars, pureVars, routed>>

\* navigateTo / the direct fillForm: the highlight and the delays are over
FinishAction(k) ==
    /\ k \in 1..Len(runs)
    /\ runs[k].ph = "busy"
    /\ runs' = Finished(k)
    /\ UNCHANGED <<isAutomatedAction, executed, submits, lastAct>>
    /\ UNCHANGED <<chatVars, modeVars, appVars, formVars, filter, authVars, reqVars, pureVars, routed>>

\* clickElement: document.querySelector after the first delay, and the retry
ClickLookup(k) ==
    /\ k \in 1..Len(runs)
    /\ runs[k].ph \in {"lookup", "retry"}
    /\ LET r == runs[k]
           a == r.acts[r.i]
       IN IF Malformed(a.target)
          THEN runs' = Caught(k) /\ UNCHANGED lastAct
          ELSE IF InDocument(a.target)
          THEN runs' = Step(k, "clicking") /\ UNCHANGED lastAct
          ELSE IF r.ph = "lookup"
               THEN runs' = Step(k, "retry") /\ UNCHANGED lastAct
               ELSE runs' = Finished(k) /\ lastAct' = Did(a, FALSE, {})
    /\ UNCHANGED <<isAutomatedAction, executed, submits>>
    /\ UNCHANGED <<chatVars, modeVars, appVars, formVars, filter, authVars, reqVars, pureVars, routed>>

\* clickElement: targetElement.click() on the element found.  The add-task
\* button submits the form (unless disabled), a filter button sets the filter;
\* an element no longer in the document reaches no React handler.
ClickFire(k) ==
    /\ k \in 1..Len(runs)
    /\ runs[k].ph = "clicking"
    /\ LET r == runs[k]
           a == r.acts[r.i]
           submit == a.target = "add_task_button" /\ InDocument(a.target) /\ ~isSubmitting
       IN /\ runs' = Finished(k)
          /\ lastAct' = Did(a, TRUE, {Ev(a.target, "click")})
          /\ IF submit
             THEN HandleSubmit
             ELSE UNCHANGED <<formVars, reqVars>>
          /\ submits' = IF submit /\ OfCurrentBatch(r) THEN Min(submits + 1, MaxCount)
                        ELSE submits
          /\ filter' = IF a.target = "completed_tasks_filter" /\ InDocument(a.target)
                       THEN "completed" ELSE filter
    /\ UNCHANGED <<isAutomatedAction, executed>>
    /\ UNCHANGED <<chatVars, modeVars, appVars, authVars, pureVars, routed>>

\* fillForm without the direct setter: for each truthy value the field is
\* looked for by name inside the container, then by data-ui-target
\* task_<key>_input, by that id, and by name in the whole document; its value
\* is set and input and change events are dispatched on it.  (React state is
\* not changed by a value set this way.)
FillFields(k) ==
    /\ k \in 1..Len(runs)
    /\ runs[k].ph = "filling"
    /\ LET r == runs[k]
           a == r.acts[r.i]
           field == "task_title_input"
       IN /\ runs' = Finished(k)
          /\ lastAct' = Did(a, TRUE,
                            IF Truthy(a.data) /\ InDocument(field)
                            THEN {Ev(field, "input"), Ev(field, "change")}
                            ELSE {})
    /\ UNCHANGED <<isAutomatedAction, executed, submits>>
    /\ UNCHANGED <<chatVars, modeVars, appVars, formVars, filter, authVars, reqVars, pureVars, routed>>

\* searchFor: the value is set and input and keydown(Enter) are dispatched
SearchFire(k) ==
    /\ k \in 1..Len(runs)
    /\ runs[k].ph = "searching"
    /\ LET r == runs[k]
           a == r.acts[r.i]
       IN /\ runs' = Finished(k)
          /\ lastAct' = Did(a, TRUE, {Ev(a.target, "input"), Ev(a.target, "keydown")})
    /\ UNCHANGED <<isAutomatedAction, executed, submits>>
    /\ UNCHANGED <<chatVars, modeVars, appVars, formVars, filter, authVars, reqVars, pureVars, routed>>

\* the loop of executeAllActions ended: the flag is reset and onComplete is
\* scheduled
EndBatch(k) ==
    /\ k \in 1..Len(runs)
    /\ runs[k].ph = "idle"
    /\ runs[k].i > Len(runs[k].acts)
    /\ runs' = Step(k, "fin")
    /\ isAutomatedAction' = FALSE
    /\ UNCHANGED <<executed, submits, lastAct>>
    /\ UNCHANGED <<chatVars, modeVars, appVars, formVars, filter, authVars, reqVars, pureVars, routed>>

\* onComplete(): setUiActions(null); ChatInterface re-renders without the
\* executor, whose effect cleanup resets the flag
OnComplete(k) ==
    /\ k \in 1..Len(runs)
    /\ runs[k].ph = "fin"
    /\ IF uiActions.set
       THEN uiActions' = NoBatch /\ RenderWith(RemoveRun(k), NoBatch)
       ELSE runs' = RemoveRun(k)
            /\ UNCHANGED <<uiActions, isAutomatedAction, executed, submits, lastAct>>
    /\ UNCHANGED <<messages, input, loading, assistantMode, chatReq, timers>>
    /\ UNCHANGED <<modeVars, appVars, formVars, filter, authVars, reqVars, pureVars, routed>>

----------------------------------------------------------------------------
(* The authenticated session: chat, mode toggle, executor, add-task form and  *)
(* task refresh                                                              *)

NoLogin == [st |-> "idle", tok |-> NoToken, success |-> "none"]
NoStatus == [st |-> "idle", bearer |-> "", read |-> NoToken]

\* the state of ChatInterface, ModeToggle, AddTaskForm, TaskList and
\* UIActionExecutor when they mount
Fresh(saved) ==
    /\ messages = <<"welcome">>
    /\ input = ""
    /\ loading = FALSE
    /\ uiActions = NoBatch
    /\ assistantMode = InitialMode(saved)
    /\ chatReq = NoChat
    /\ timers = 0
    /\ mode = MountedMode(InitialMode(saved), saved)
    /\ lsMode = saved
    /\ title = ""
    /\ isExpanded = FALSE
    /\ isSubmitting = FALSE
    /\ posts = <<>>
    /\ filter = "all"
    /\ runs = <<>>
    /\ isAutomatedAction = FALSE
    /\ executed = <<>>
    /\ submits = 0
    /\ lastAct = NoAct

\* the state once the page has loaded for a logged-in user: the mount effects
\* have run, so fetchTasks is in flight
Loaded(saved, held) ==
    /\ Fresh(saved)
    /\ tasks = 0
    /\ isLoading = TRUE
    /\ error = ""
    /\ fetches = 1
    /\ serverTasks = held

Themes == {"light", "dark"}

\* a plausible slip: the system preference wins over the saved theme
GetInitialTheme_SystemFirst(saved, dark) ==
    IF dark THEN "dark" ELSE IF Truthy(saved) THEN saved ELSE "light"

\* getInitialTheme: the saved theme, or else the system preference
GetInitialTheme(saved, dark) ==
    IF Truthy(saved) THEN saved ELSE IF dark THEN "dark" ELSE "light"

\* setTheme(v) in the mount effect: React bails out when v is the state
\* useState('light') holds, and queues a re-render otherwise
QueuedBy(v) == IF v = "light" THEN "none" ELSE v

\* the theme state once the queued update is applied
CurrentTheme == IF queuedTheme # "none" THEN queuedTheme ELSE theme

\* ThemeProvider after its first render and both mount effects: theme is
\* 'light', the first effect has called setTheme(getInitialTheme()) and the
\* second has stored 'light'
ThemeFirstRender(saved, dark) ==
    /\ theme = "light"
    /\ lsTheme = "light"
    /\ prefersDark = dark
    /\ queuedTheme = QueuedBy(GetInitialTheme(saved, dark))
    /\ savedAtMount = saved

\* the same of a page reload
ThemeRemount ==
    /\ theme' = "light"
    /\ lsTheme' = "light"
    /\ queuedTheme' = QueuedBy(GetInitialTheme(lsTheme, prefersDark))
    /\ savedAtMount' = lsTheme
    /\ UNCHANGED prefersDark

\* the light theme was saved and has been restored
ThemeSettled == ThemeFirstRender("light", FALSE)

\* no task request in flight, no task list, nothing routed
IdleTasks ==
    /\ status = NoStatus
    /\ taskList = <<>>
    /\ editingTask = 0
    /\ calls = <<>>
    /\ serverList = <<>>
    /\ mountMode = assistantMode
    /\ routed = [n |-> 0, category |-> "none", replay |-> FALSE, refresh |-> FALSE]

Idle ==
    /\ ThemeSettled
    /\ status = NoStatus
    /\ taskList = <<>>
    /\ editingTask = 0
    /\ calls = <<>>
    /\ serverList = <<>>
    /\ mountMode = assistantMode
    /\ routed = [n |-> 0, category |-> "none", replay |-> FALSE, refresh |-> FALSE]

Init ==
    /\ \E saved \in {"null"} \cup Modes : \E held \in 0..MaxTasks : Loaded(saved, held)
    /\ token = "tokA"
    /\ isAuthenticated = TRUE
    /\ user = "alice"
    /\ authLoading = FALSE
    /\ authOp = NoLogin
    /\ lastReq = Sent("list", AuthToken(token), token)
    /\ fetchQ = <<AuthToken(token)>>
    /\ tasksBy = NoFetch
    /\ Idle

\* the page is reloaded: the JavaScript state is lost, localStorage and the
\* server keep theirs
Reload ==
    /\ messages' = <<"welcome">>
    /\ input' = ""
    /\ loading' = FALSE
    /\ uiActions' = NoBatch
    /\ assistantMode' = InitialMode(lsMode)
    /\ chatReq' = NoChat
    /\ timers' = 0
    /\ mode' = MountedMode(InitialMode(lsMode), lsMode)
    /\ tasks' = 0
    /\ isLoading' = TRUE
    /\ error' = ""
    /\ fetches' = 1
    /\ fetchQ' = <<AuthToken(token)>>
    /\ tasksBy' = NoFetch
    /\ title' = ""
    /\ isExpanded' = FALSE
    /\ isSubmitting' = FALSE
    /\ posts' = <<>>
    /\ filter' = "all"
    /\ runs' = <<>>
    /\ isAutomatedAction' = FALSE
    /\ executed' = <<>>
    /\ submits' = 0
    /\ lastAct' = NoAct
    /\ lastReq' = Sent("list", AuthToken(token), token)
    /\ mountMode' = InitialMode(lsMode)
    /\ UNCHANGED <<lsMode, serverTasks, authVars, status, routed>>
    /\ ThemeRemount
    /\ UNCHANGED <<taskList, editingTask, calls, serverList>>

\* the chat, the replay and the requests they cause; the user's own use of the
\* add-task form is part of SpecAct and SpecApp
Next ==
    \/ \E v \in InputTexts : TypeInput(v)
    \/ SendMessage
    \/ \E resp \in Responses : ChatResponse(resp) /\ UNCHANGED routed
    \/ TimerFire
    \/ ToggleMode
    \/ \E ok \in BOOLEAN : FetchDone(ok)
    \/ Retry
    \/ \E ok \in BOOLEAN : PostDone(ok)
    \/ \E k \in 1..MaxRuns : ExecStart(k)
    \/ \E k \in 1..MaxRuns : FinishAction(k)
    \/ \E k \in 1..MaxRuns : ClickLookup(k)
    \/ \E k \in 1..MaxRuns : ClickFire(k)
    \/ \E k \in 1..MaxRuns : FillFields(k)
    \/ \E k \in 1..MaxRuns : SearchFire(k)
    \/ \E k \in 1..MaxRuns : EndBatch(k)
    \/ \E k \in 1..MaxRuns : OnComplete(k)
    \/ Reload

Spec == Init /\ [][Next]_vars

----------------------------------------------------------------------------
(* Claims about the authenticated session (Spec) *)

\* a run has started an action of its batch
Replaying(r) == r.ph \in Executing \/ r.i > 1

\* C1: for a chat message sent with assistant_mode = 'plan', no UI action of
\* its response is replayed by UIActionExecutor, whatever the response holds.
C1_PlanModeReplaysNothing ==
    \A k \in 1..Len(runs) : runs[k].mode = "plan" => ~Replaying(runs[k])

\* the entries of messages after the last message of the user
RECURSIVE AfterLastUser(_)
AfterLastUser(ms) ==
    IF ms = <<>> \/ ms[Len(ms)] = "user" THEN <<>>
    ELSE Append(AfterLastUser(SubSeq(ms, 1, Len(ms) - 1)), ms[Len(ms)])

\* C6: every chat message sent gets exactly one assistant reply appended after
\* it -- the response text when the request succeeded, the fixed apology when
\* it failed -- and loading is false once the request has ended.
C6_ExactlyOneReply ==
    /\ loading <=> chatReq.set
    /\ (nSent > 0 /\ ~loading) => Len(AfterLastUser(messages)) = 1
    /\ loading => AfterLastUser(messages) = <<>>

\* C9: between ChatInterface setting a batch and clearing it, each distinct
\* action of the batch is executed at most once, and the batch submits the
\* add-task form at most once, under every interleaving with re-renders.
C9_EachActionAtMostOnce ==
    /\ \A i \in DOMAIN executed : executed[i] <= 1
    /\ submits <= 1

\* C10: at any moment at most one UI action is being executed.
C10_OneActionAtATime ==
    Cardinality({k \in 1..Len(runs) : runs[k].ph \in Executing}) <= 1

----------------------------------------------------------------------------
(* The assistant mode: ChatInterface.assistantMode, ModeToggle.mode and       *)
(* localStorage, with the chat requests that carry the mode                   *)

NextMode ==
    \/ \E v \in InputTexts : TypeInput(v)
    \/ SendMessage
    \/ \E resp \in Responses : ChatResponse(resp) /\ UNCHANGED routed
    \/ ToggleMode
    \/ Reload

SpecMode == Init /\ [][NextMode]_vars

\* C8: there are exactly two assistant modes: in every reachable state the
\* mode is 'plan' or 'act', it is 'act' when nothing was saved, and each
\* toggle switches it to the other one of the two.
C8_TwoModes ==
    /\ [](assistantMode \in Modes /\ mode = assistantMode)
    /\ [](lsMode = "null" => assistantMode = "act")
    /\ [][ToggleMode => /\ assistantMode' \in Modes \ {assistantMode}
                        /\ mode' = assistantMode']_vars

\* a message went out in act mode and the mode was toggled to plan since
C8_Witness ==
    chatReq.set /\ chatReq.mode = "act" /\ assistantMode = "plan" /\ lsMode = "plan"

\* a first visit: nothing is stored under 'assistantMode' yet
InitFirstVisit == Init /\ lsMode = "null"

SpecPersist == InitFirstVisit /\ [][NextMode]_vars

\* C20: the assistant mode persists across sessions.  The mode changes only
\* by a toggle, which writes the new mode to localStorage 'assistantMode'; once
\* something is stored it is the mode of both components; and a page reload
\* mounts ChatInterface and ModeToggle in the mode that was selected last.
C20_ModePersists ==
    /\ [][assistantMode' # assistantMode \/ mode' # mode
            => (lsMode' = assistantMode' /\ mode' = assistantMode'
                /\ assistantMode' # assistantMode)]_vars
    /\ [](lsMode # "null" => (lsMode = assistantMode /\ lsMode = mode))
    /\ [][Reload => (assistantMode' = mode /\ mode' = mode /\ lsMode' = lsMode)]_vars

\* nothing was stored at first, the mode was toggled to plan, and the page
\* reload that followed has mounted the chat in plan mode
C20_Witness ==
    /\ mountMode = "plan"
    /\ messages = <<"welcome">> /\ ~chatReq.set
    /\ lsMode = "plan" /\ assistantMode = "plan" /\ mode = "plan"

----------------------------------------------------------------------------
(* One UI action replayed against a document that changes under it            *)

\* each action type with a target the document may carry, one it never
\* carries, and (navigate, click) no target
SingleActions ==
    { Act("navigate", "task_section", ""), Act("navigate", "ghost", ""),
      Act("navigate", "", ""),
      Act("click", "add_task_button", ""), Act("click", "completed_tasks_filter", ""),
      Act("click", "ghost", ""), Act("click", "", ""),
      Act("fill_form", "add_task_form", "t"), Act("fill_form", "task_section", "t"),
      Act("fill_form", "ghost", "t"),
      Act("search", "task_title_input", "q"), Act("search", "ghost", "q") }

\* the state right after an act-mode response whose uiActions is [a]
InitAct ==
    /\ \E a \in SingleActions : uiActions = Batch(<<a>>, "act", 1)
    /\ messages = <<"welcome", "user", "reply">>
    /\ input = ""
    /\ loading = FALSE
    /\ assistantMode = "act"
    /\ chatReq = NoChat
    /\ timers = 0
    /\ mode = "act"
    /\ lsMode = "null"
    /\ tasks = 0
    /\ isLoading \in BOOLEAN
    /\ error = ""
    /\ fetches = IF isLoading THEN 1 ELSE 0
    /\ serverTasks = 0
    /\ title = ""
    /\ isExpanded = FALSE
    /\ isSubmitting = FALSE
    /\ posts = <<>>
    /\ filter = "all"
    /\ runs = <<NewRun(uiActions)>>
    /\ isAutomatedAction = TRUE
    /\ executed = ZeroCounts(uiActions)
    /\ submits = 0
    /\ lastAct = NoAct
    /\ token = "tokA"
    /\ isAuthenticated = TRUE
    /\ user = "alice"
    /\ authLoading = FALSE
    /\ authOp = NoLogin
    /\ lastReq = Sent("chat", AuthToken(token), token)
    /\ fetchQ = IF isLoading THEN <<AuthToken(token)>> ELSE <<>>
    /\ tasksBy = IF isLoading THEN NoFetch ELSE AuthToken(token)
    /\ Idle

NextAct ==
    \/ \E k \in 1..MaxRuns : ExecStart(k)
    \/ \E k \in 1..MaxRuns : FinishAction(k)
    \/ \E k \in 1..MaxRuns : ClickLookup(k)
    \/ \E k \in 1..MaxRuns : ClickFire(k)
    \/ \E k \in 1..MaxRuns : FillFields(k)
    \/ \E k \in 1..MaxRuns : SearchFire(k)
    \/ \E k \in 1..MaxRuns : EndBatch(k)
    \/ \E k \in 1..MaxRuns : OnComplete(k)
    \/ \E ok \in BOOLEAN : FetchDone(ok)
    \/ Retry
    \/ \E v \in Titles : TypeTitle(v)
    \/ UserSubmit
    \/ \E ok \in BOOLEAN : PostDone(ok)

SpecAct == InitAct /\ [][NextAct]_vars

\* the element is the one tagged t, or lies inside it: AddTaskForm renders its
\* title input and its button inside the form tagged add_task_form
Within(elem, t) ==
    elem = t \/ (t = "add_task_form" /\ elem \in {"task_title_input", "add_task_button"})

\* C2 as stated: every event a UI action dispatches is dispatched on the
\* element whose data-ui-target equals action.target (for fill_form, on its
\* fields), and an action whose target is carried by no element dispatches no
\* event.
C2_ActsOnTaggedElement ==
    /\ \A e \in lastAct.events : Within(e.elem, lastAct.target)
    /\ ~lastAct.found => lastAct.events = {}

\* C2 amended: navigate, click and search act on the element whose
\* data-ui-target equals action.target; fill_form acts on the fields named by
\* the data keys, wherever fillForm finds them; and an action whose target is
\* carried by no element (for click: at neither lookup) dispatches no event and
\* changes no state of the add-task form.
C2_ActsOnTaggedElementOrItsFields ==
    /\ [](lastAct.type \in {"navigate", "click", "search"}
            => \A e \in lastAct.events : e.elem = lastAct.target)
    /\ [](lastAct.type = "fill_form"
            => \A e \in lastAct.events : e.elem = "task_title_input")
    /\ [](~lastAct.found => lastAct.events = {})
    /\ [][\A k \in 1..Len(runs) :
            (ExecStart(k) \/ ClickLookup(k)) /\ ~InDocument(runs[k].acts[runs[k].i].target)
                => UNCHANGED formVars]_vars

\* a click whose target the document carried at neither lookup
C2_Witness ==
    /\ lastAct.type = "click" /\ lastAct.target = "completed_tasks_filter"
    /\ ~lastAct.found
    /\ \E k \in 1..Len(runs) : runs[k].i = 2

----------------------------------------------------------------------------
(* Intent routing.  The request router and the agents are backend code that   *)
(* is not part of the sources; they are modelled from the specification:      *)
(* a task-management command is executed directly (plan mode) or turned into  *)
(* UI actions to replay (act mode), an informational query goes to the        *)
(* search/LLM tool.  What the frontend does with the reply is the code of     *)
(* handleSendMessage.                                                         *)

Utterances == {"task command", "informational query"}
Categories == {"task_action", "ui_action", "out_of_scope"}

RequestRouter(u, m) ==
    IF u = "informational query" THEN "out_of_scope"
    ELSE IF m = "plan" THEN "task_action" ELSE "ui_action"

\* the reply of the handler of a category
HandlerReply(c) ==
    [status |-> "ok", json |-> "object",
     uiActions |-> IF c = "ui_action" THEN Arr(FillThenAdd) ELSE Undef,
     actions |-> CASE c = "task_action" -> Arr(<<Entry("task_added")>>)
                   [] c = "out_of_scope" -> Arr(<<Entry("conversation")>>)
                   [] OTHER -> Undef]

\* the server routes the message and replies; routed records the category and
\* which frontend handlers the reply set off: the DOM replay (a batch of this
\* message handed to the executor) and the task refresh (the timer)
RouterReply(u) ==
    /\ chatReq.set
    /\ ChatResponse(HandlerReply(RequestRouter(u, chatReq.mode)))
    /\ routed' = [n |-> chatReq.n,
                  category |-> RequestRouter(u, chatReq.mode),
                  replay |-> EffectStarts(uiActions') /\ uiActions'.id = chatReq.n,
                  refresh |-> timers' > timers]

NextRouter ==
    \/ \E v \in InputTexts : TypeInput(v)
    \/ SendMessage
    \/ \E u \in Utterances : RouterReply(u)
    \/ ToggleMode
    \/ TimerFire
    \/ \E ok \in BOOLEAN : FetchDone(ok)
    \/ Reload

SpecRouter == Init /\ [][NextRouter]_vars

----------------------------------------------------------------------------
(* TaskList: the filter *)

Statuses == {"todo", "in_progress", "done"}
Filters == {"all", "active", "completed"}

\* a plausible slip: in_progress tasks dropped from Active
Keep_TodoOnly(task, f) ==
    IF f = "all" THEN TRUE
    ELSE IF f = "active" THEN task.status = "todo"
    ELSE IF f = "completed" THEN task.status = "done"
    ELSE task.status = f

\* the predicate of tasks.filter(...) in TaskList
Keep(task, f) ==
    IF f = "all" THEN TRUE
    ELSE IF f = "active" THEN task.status = "todo" \/ task.status = "in_progress"
    ELSE IF f = "completed" THEN task.status = "done"
    ELSE task.status = f

\* the predicate of the earlier TaskList
KeepEarlier(task, f) ==
    IF f = "all" THEN TRUE
    ELSE IF f = "active" THEN task.status # "done"
    ELSE IF f = "completed" THEN task.status = "done"
    ELSE task.status = f

FilteredTasks(ts, f) == SelectSeq(ts, LAMBDA t : Keep(t, f))
FilteredTasksEarlier(ts, f) == SelectSeq(ts, LAMBDA t : KeepEarlier(t, f))

\* the task lists of up to MaxLen tasks, ids 1..n
TaskLists ==
    UNION { { [i \in 1..n |-> [id |-> i, status |-> st[i]]] : st \in [1..n -> Statuses] }
            : n \in 0..MaxLen }

InitFilter ==
    /\ taskList \in TaskLists
    /\ editingTask = 0
    /\ calls = <<>>
    /\ serverList = taskList
    /\ mountMode = "act"
    /\ ThemeSettled
    /\ filter = "all"
    /\ messages = <<"welcome">> /\ input = "" /\ loading = FALSE /\ uiActions = NoBatch
    /\ assistantMode = "act" /\ chatReq = NoChat /\ timers = 0
    /\ mode = "act" /\ lsMode = "null"
    /\ tasks = Len(taskList) /\ isLoading = FALSE /\ error = "" /\ fetches = 0
    /\ fetchQ = <<>> /\ tasksBy = "tokA"
    /\ serverTasks = Len(taskList)
    /\ title = "" /\ isExpanded = FALSE /\ isSubmitting = FALSE /\ posts = <<>>
    /\ runs = <<>> /\ isAutomatedAction = FALSE /\ executed = <<>> /\ submits = 0
    /\ lastAct = NoAct
    /\ token = "tokA" /\ isAuthenticated = TRUE /\ user = "alice"
    /\ authLoading = FALSE /\ authOp = NoLogin
    /\ lastReq = NoReq /\ status = NoStatus
    /\ routed = [n |-> 0, category |-> "none", replay |-> FALSE, refresh |-> FALSE]

\* the All / Active / Completed buttons: setFilter
SetFilter(f) ==
    /\ TaskListMounted
    /\ filter' = f
    /\ UNCHANGED <<chatVars, modeVars, appVars, formVars, execVars, authVars, reqVars,
                   pureVars, routed>>

NextFilter == \E f \in Filters : SetFilter(f)

SpecFilter == InitFilter /\ [][NextFilter]_vars

Ids(ts) == {ts[i].id : i \in 1..Len(ts)}

\* C7: for task lists with statuses among todo, in_progress and done, 'all'
\* shows every task, 'active' exactly the todo and in_progress tasks,
\* 'completed' exactly the done tasks, so every task is under exactly one of
\* Active and Completed; and the earlier TaskList selects the same tasks.
C7_FilterPartition ==
    LET shown(f) == Ids(FilteredTasks(taskList, f))
        withStatus(S) == {taskList[i].id : i \in {j \in 1..Len(taskList) : taskList[j].status \in S}}
    IN /\ FilteredTasks(taskList, "all") = taskList
       /\ shown("active") = withStatus({"todo", "in_progress"})
       /\ shown("completed") = withStatus({"done"})
       /\ shown("active") \cap shown("completed") = {}
       /\ shown("active") \cup shown("completed") = Ids(taskList)
       /\ \A f \in Filters : FilteredTasks(taskList, f) = FilteredTasksEarlier(taskList, f)

\* the Active filter is on over a list that holds an in_progress and a done task
C7_Witness ==
    /\ filter = "active"
    /\ \E i, j \in 1..Len(taskList) :
          taskList[i].status = "in_progress" /\ taskList[j].status = "done"
    /\ Len(FilteredTasks(taskList, filter)) < Len(taskList)

----------------------------------------------------------------------------
(* AuthProvider, and the requests of AppContent, TaskList, AddTaskForm and    *)
(* ChatInterface                                                              *)

NoUser == "null"

\* Math.floor(Date.now() / 1000)
CurrentTime == 10

\* what localStorage may hold under 'token', or a login may return
Tokens == {"tokA", "tokB", "tokOld", "tokZero", "tokNoExp", "tokBad"}

\* what a login may return: the server's tokens, one of them already expired
\* by the browser's clock
IssuedTokens == {"tokA", "tokB", "tokOld"}

\* token.split('.')[1], atob and JSON.parse succeed
Parses(t) == t \in Tokens \ {"tokBad"}

\* the decoded payload; hasExp is whether it has an exp claim
Payload(t) ==
    CASE t = "tokA" -> [sub |-> "alice", hasExp |-> TRUE, exp |-> 20]
      [] t = "tokB" -> [sub |-> "bob", hasExp |-> TRUE, exp |-> 20]
      [] t = "tokOld" -> [sub |-> "alice", hasExp |-> TRUE, exp |-> 5]
      [] t = "tokZero" -> [sub |-> "alice", hasExp |-> TRUE, exp |-> 0]
      [] OTHER -> [sub |-> "alice", hasExp |-> FALSE, exp |-> 0]

\* `payload.exp && payload.exp < currentTime`: an exp of 0 is falsy
TokenExpired(payload) ==
    payload.hasExp /\ payload.exp # 0 /\ payload.exp < CurrentTime

\* fetchUserInfo(t): whether it reaches setUser / setIsAuthenticated(true)
UserInfoOk(t) == Truthy(t) /\ Parses(t) /\ ~TokenExpired(Payload(t))

\* a plausible slip: setUser is left out
FetchUserInfo_NoUser(t, stored) ==
    /\ IF UserInfoOk(t)
       THEN /\ user' = user
            /\ isAuthenticated' = TRUE
            /\ token' = stored
       ELSE /\ token' = NoToken
            /\ isAuthenticated' = FALSE
            /\ user' = NoUser
    /\ authLoading' = FALSE

\* fetchUserInfo(t) with `stored` in localStorage: on success setUser and
\* setIsAuthenticated(true), otherwise logout(); finally setLoading(false)
FetchUserInfo(t, stored) ==
    /\ IF UserInfoOk(t)
       THEN /\ user' = Payload(t).sub
            /\ isAuthenticated' = TRUE
            /\ token' = stored
       ELSE /\ token' = NoToken
            /\ isAuthenticated' = FALSE
            /\ user' = NoUser
    /\ authLoading' = FALSE

\* the state after construction, before the mount effects
InitApp ==
    /\ Fresh("null")
    /\ tasks = 0
    /\ isLoading = FALSE
    /\ error = ""
    /\ fetches = 0
    /\ fetchQ = <<>>
    /\ tasksBy = NoFetch
    /\ serverTasks \in 0..MaxTasks
    /\ token \in {NoToken} \cup Tokens
    /\ isAuthenticated = FALSE
    /\ user = NoUser
    /\ authLoading = TRUE
    /\ authOp = NoLogin
    /\ lastReq = NoReq
    /\ Idle

\* the mount effects, children first: AppContent's fetchTasks(), then
\* AuthProvider's check of the stored token
MountApp ==
    /\ authLoading
    /\ FetchStart
    /\ IF Truthy(token)
       THEN FetchUserInfo(token, token)
       ELSE authLoading' = FALSE /\ UNCHANGED <<token, isAuthenticated, user>>
    /\ UNCHANGED <<chatVars, modeVars, formVars, filter, execVars, authOp, status,
                   pureVars, routed>>

\* LoginForm.handleSubmit up to the await of the token request; the form is
\* shown when not authenticated and its button is disabled while loading
LoginStart ==
    /\ ~authLoading /\ ~isAuthenticated
    /\ authOp.st = "idle"
    /\ authOp' = [st |-> "pending", tok |-> NoToken, success |-> "none"]
    /\ UNCHANGED <<chatVars, modeVars, appVars, formVars, filter, execVars, reqVars,
                   token, isAuthenticated, user, authLoading, pureVars, routed>>

\* login from the resolution of the token request: a response that is not ok
\* throws; otherwise the token is stored and fetchUserInfo runs on it, and
\* login returns success
LoginDone(ok, t) ==
    /\ authOp.st = "pending"
    /\ IF ok
       THEN /\ FetchUserInfo(t, t)
            /\ authOp' = [st |-> "idle", tok |-> t, success |-> "true"]
       ELSE /\ authOp' = [st |-> "idle", tok |-> NoToken, success |-> "false"]
            /\ UNCHANGED <<token, isAuthenticated, user, authLoading>>
    /\ UNCHANGED <<chatVars, modeVars, appVars, formVars, filter, execVars, reqVars,
                   pureVars, routed>>

\* RegisterForm.handleSubmit up to the await of register(); the form is shown
\* in place of LoginForm when not authenticated (the model has one of the two
\* requests in flight at a time)
RegisterStart ==
    /\ ~authLoading /\ ~isAuthenticated
    /\ authOp.st = "idle"
    /\ authOp' = [st |-> "registering", tok |-> NoToken, success |-> "none"]
    /\ UNCHANGED <<chatVars, modeVars, appVars, formVars, filter, execVars, reqVars,
                   token, isAuthenticated, user, authLoading, pureVars, routed>>

\* register resolves: { success: true } or { success: false, error }; nothing
\* of AuthProvider's state or of localStorage is written
RegisterDone(ok) ==
    /\ authOp.st = "registering"
    /\ authOp' = [st |-> "idle", tok |-> NoToken,
                  success |-> IF ok THEN "registered" ELSE "not registered"]
    /\ UNCHANGED <<chatVars, modeVars, appVars, formVars, filter, execVars, reqVars,
                   token, isAuthenticated, user, authLoading, pureVars, routed>>

\* the Logout button: logout(); AppContent then renders the auth section in
\* place of AddTaskForm, TaskList and ChatInterface, whose state is lost (a
\* chat request or POST they left in flight only sets that lost state). The
\* requests of fetchTasks and of the TaskList handlers stay in flight.
Logout ==
    /\ isAuthenticated
    /\ token' = NoToken
    /\ isAuthenticated' = FALSE
    /\ user' = NoUser
    /\ messages' = <<"welcome">>
    /\ input' = ""
    /\ loading' = FALSE
    /\ uiActions' = NoBatch
    /\ assistantMode' = InitialMode(lsMode)
    /\ chatReq' = NoChat
    /\ mode' = MountedMode(InitialMode(lsMode), lsMode)
    /\ title' = ""
    /\ isExpanded' = FALSE
    /\ isSubmitting' = FALSE
    /\ posts' = <<>>
    /\ filter' = "all"
    /\ runs' = <<>>
    /\ isAutomatedAction' = FALSE
    /\ executed' = <<>>
    /\ submits' = 0
    /\ lastAct' = NoAct
    /\ UNCHANGED <<timers, lsMode, appVars, authLoading, authOp, reqVars, pureVars, routed>>

\* handleStatusChange up to the await of the GET: the token is read once here
StatusStart ==
    /\ TaskListMounted /\ tasks > 0
    /\ status.st = "idle"
    /\ status' = [st |-> "get", bearer |-> AuthToken(token), read |-> token]
    /\ lastReq' = Sent("get", AuthToken(token), token)
    /\ UNCHANGED <<chatVars, modeVars, appVars, formVars, filter, execVars, authVars,
                   pureVars, routed>>

\* handleStatusChange from the resolution of the GET: not ok alerts and
\* returns, ok sends the PATCH with the token read before the GET
StatusGetDone(ok) ==
    /\ status.st = "get"
    /\ IF ok
       THEN /\ status' = [status EXCEPT !.st = "patch"]
            /\ lastReq' = Sent("patch", status.bearer, status.read)
       ELSE /\ status' = NoStatus
            /\ UNCHANGED lastReq
    /\ UNCHANGED <<chatVars, modeVars, appVars, formVars, filter, execVars, authVars,
                   pureVars, routed>>

\* handleSaveEdit and handleDeleteTask up to the await of their request
TaskRequest(api) ==
    /\ TaskListMounted /\ tasks > 0
    /\ status.st = "idle"
    /\ status' = [st |-> api, bearer |-> AuthToken(token), read |-> token]
    /\ lastReq' = Sent(api, AuthToken(token), token)
    /\ UNCHANGED <<chatVars, modeVars, appVars, formVars, filter, execVars, authVars,
                   pureVars, routed>>

\* the PATCH, PUT or DELETE resolves: ok calls onTaskUpdate() -> fetchTasks,
\* not ok alerts
TaskRequestDone(ok) ==
    /\ status.st \in {"patch", "put", "delete"}
    /\ status' = NoStatus
    /\ IF ok
       THEN /\ fetches < MaxFetch
            /\ isLoading' = TRUE
            /\ error' = ""
            /\ fetches' = fetches + 1
            /\ fetchQ' = Append(fetchQ, AuthToken(token))
            /\ lastReq' = Sent("list", AuthToken(token), token)
            /\ serverTasks' = IF status.st = "delete" /\ serverTasks > 0
                              THEN serverTasks - 1 ELSE serverTasks
            /\ UNCHANGED <<tasks, tasksBy>>
            /\ IF AppChanged THEN RenderSame ELSE UNCHANGED execVars
       ELSE UNCHANGED <<appVars, lastReq, execVars>>
    /\ UNCHANGED <<chatVars, modeVars, formVars, filter, authVars, pureVars, routed>>

\* the chat responses that carry no UI action batch (their replay is the
\* subject of Spec)
TaskReplies ==
    {r \in Responses : r.uiActions = Undef /\ r.actions \in {Undef, Arr(<<Entry("task_added")>>)}}

\* the requests in flight, refresh timers included
InFlight ==
    fetches + Len(posts) + timers
    + (IF status.st = "idle" THEN 0 ELSE 1) + (IF chatReq.set THEN 1 ELSE 0)

\* the model lets the user start a request while fewer than MaxInFlight are out
CanStart == InFlight < MaxInFlight

NextApp ==
    \/ MountApp
    \/ LoginStart
    \/ \E ok \in BOOLEAN : \E t \in IssuedTokens : LoginDone(ok, t)
    \/ RegisterStart
    \/ \E ok \in BOOLEAN : RegisterDone(ok)
    \/ Logout
    \/ \E ok \in BOOLEAN : FetchDone(ok)
    \/ Retry /\ CanStart
    \/ StatusStart /\ CanStart
    \/ \E ok \in BOOLEAN : StatusGetDone(ok)
    \/ \E api \in {"put", "delete"} : TaskRequest(api) /\ CanStart
    \/ \E ok \in BOOLEAN : TaskRequestDone(ok)
    \/ \E v \in Titles : TypeTitle(v)
    \/ UserSubmit /\ CanStart
    \/ \E ok \in BOOLEAN : PostDone(ok)
    \/ \E v \in InputTexts : TypeInput(v)
    \/ SendMessage /\ CanStart
    \/ \E resp \in TaskReplies : ChatResponse(resp) /\ UNCHANGED routed
    \/ TimerFire

SpecApp == InitApp /\ [][NextApp]_vars

\* C4: every request to the tasks API or the chat API carries as bearer the
\* token that localStorage holds when it is sent, or the hardcoded token when
\* none is stored; none goes without a bearer.
C4_BearerIsStoredToken ==
    lastReq.api # "none" =>
        /\ Truthy(lastReq.bearer)
        /\ lastReq.bearer = IF Truthy(lastReq.stored) THEN lastReq.stored ELSE Hardcoded


\* C4, amended: every request carries as bearer the token its handler read from
\* localStorage, or the hardcoded token when it read none, and never goes
\* without a bearer; every request but the status PATCH is sent as its handler
\* reads the token, so that token is the one localStorage holds then; the
\* PATCH carries the token read before the GET that precedes it.
C4_BearerIsTokenReadByHandler ==
    lastReq.api # "none" =>
        /\ Truthy(lastReq.bearer)
        /\ lastReq.bearer = IF Truthy(lastReq.read) THEN lastReq.read ELSE Hardcoded
        /\ lastReq.api # "patch" => lastReq.read = lastReq.stored

\* a status PATCH went out after a logout removed the token its handler had read
C4_Witness ==
    /\ lastReq.api = "patch"
    /\ lastReq.bearer = lastReq.read
    /\ lastReq.stored = NoToken /\ lastReq.read # NoToken

\* the token has an exp claim earlier than the current time
ExpClaimEarlier(t) ==
    Truthy(t) /\ Parses(t) /\ Payload(t).hasExp /\ Payload(t).exp < CurrentTime

\* C5: whenever fetchUserInfo processes a token whose exp claim is earlier
\* than the current time, at mount or after a login, isAuthenticated is then
\* false, user null, no token stored, and loading false.
C5_ExpiredNeverAuthenticates ==
    [][(\/ MountApp /\ ExpClaimEarlier(token)
        \/ \E t \in IssuedTokens : LoginDone(TRUE, t) /\ ExpClaimEarlier(t))
       => /\ isAuthenticated' = FALSE
          /\ user' = NoUser
          /\ token' = NoToken
          /\ authLoading' = FALSE]_vars

----------------------------------------------------------------------------
(* More about the authenticated session (Spec) *)

\* C11: window.isAutomatedAction is true at every moment at which an action
\* of some batch is being executed, and false whenever no batch is running
\* (every executeAllActions has ended its loop, or none was started).
C11_FlagTracksExecution ==
    /\ (\E k \in 1..Len(runs) : runs[k].ph \in Executing) => isAutomatedAction
    /\ (\A k \in 1..Len(runs) : runs[k].ph = "fin") => ~isAutomatedAction

\* C12: whenever uiActions is non-null the executor eventually calls
\* onComplete and uiActions returns to null.  A finite run refutes it once
\* uiActions is non-null while no executeAllActions of that array is under way
\* and no onComplete of it is pending: the effect has returned early, so
\* nothing is left that would call onComplete.
C12_OnCompleteIsOnItsWay ==
    uiActions.set => \E k \in 1..Len(runs) : runs[k].id = uiActions.id

\* C17: isLoading is true whenever at least one fetchTasks request is in
\* flight and false when none is, under every interleaving of overlapping
\* fetchTasks calls.
C17_LoadingWhileFetching ==
    isLoading <=> fetches > 0

----------------------------------------------------------------------------
(* The add-task form while a batch is replayed (SpecAct) *)

\* C13: a create-task POST with an empty or whitespace-only title is sent only
\* if window.isAutomatedAction is true at the time of submission, and a
\* submission made by the user with such a title sends no request and leaves
\* the form's state unchanged.
C13_OnlyManualEmptyBlocked ==
    [][/\ (Len(posts') > Len(posts) /\ EmptyTitle(posts'[Len(posts')]))
            => isAutomatedAction
       /\ (UserSubmit /\ EmptyTitle(title)) => UNCHANGED <<formVars, lastReq>>]_vars

----------------------------------------------------------------------------
(* More about AuthProvider and the requests (SpecApp) *)

\* C14: the task list displayed to an authenticated user is one fetched with
\* the token of that user's current login (the token stored now), never one
\* fetched before a logout, with another user's token or with the hardcoded
\* token.
C14_TasksOfCurrentLogin ==
    TaskListMounted => tasksBy = token

\* C15: whenever login resolves with success: true, isAuthenticated is true,
\* user is set and the returned token is stored; whenever it resolves with
\* success: false, isAuthenticated, user and the stored token are as before
\* the call resolved.
C15_LoginResultAgrees ==
    [][(authOp.st = "pending" /\ authOp'.st = "idle")
          => /\ authOp'.success = "true"
                  => isAuthenticated' /\ user' # NoUser /\ token' = authOp'.tok
             /\ authOp'.success = "false"
                  => UNCHANGED <<isAuthenticated, user, token>>]_vars

\* C16: in every state reachable through mount, login, register and logout,
\* isAuthenticated is true exactly when user is non-null, isAuthenticated true
\* implies that a token is stored, and after logout there is no token,
\* isAuthenticated is false and user is null.
C16_AuthStateConsistent ==
    /\ [](isAuthenticated <=> user # NoUser)
    /\ [](isAuthenticated => Truthy(token))
    /\ [][Logout => (token' = NoToken /\ ~isAuthenticated' /\ user' = NoUser)]_vars

\* a login with a valid token had succeeded, and the user has logged out since
C16_Witness ==
    /\ authOp.st = "idle" /\ authOp.success = "true" /\ UserInfoOk(authOp.tok)
    /\ ~isAuthenticated /\ user = NoUser /\ token = NoToken


----------------------------------------------------------------------------
(* A batch whose first actions fail                                           *)

\* an entry of the actions array that is a JSON string, not an object
StringAct == [js |-> "string", type |-> "", target |-> "", data |-> ""]

\* actions that cannot be carried out: invalid ones, one of unknown type,
\* ones whose target no element is tagged with, and ones that throw
FailingActions ==
    { NullAct, StringAct, Act("", "add_task_form", "t"),
      Act("highlight", "task_section", ""),
      Act("navigate", "ghost", ""), Act("click", "ghost", ""),
      Act("fill_form", "ghost", "t"), Act("search", "ghost", "q"),
      Act("fill_form", "add_task_form", NoData), Act("fill_form", "task_section", NoData),
      Act("search", BadSelector, "q"), Act("click", BadSelector, "") }

\* the action that follows them: it fills the title of the add-task form
LaterAction == Act("fill_form", "add_task_form", "t")

FailingBatches ==
    { <<f, LaterAction>> : f \in FailingActions }
      \cup { <<f, g, LaterAction>> : f \in {NullAct, Act("search", BadSelector, "q")},
                                     g \in FailingActions }

\* the state right after an act-mode response whose uiActions is one of them
InitBatch ==
    /\ \E b \in FailingBatches : uiActions = Batch(b, "act", 1)
    /\ messages = <<"welcome", "user", "reply">>
    /\ input = ""
    /\ loading = FALSE
    /\ assistantMode = "act"
    /\ chatReq = NoChat
    /\ timers = 0
    /\ mode = "act"
    /\ lsMode = "null"
    /\ tasks = 0
    /\ isLoading \in BOOLEAN
    /\ error = ""
    /\ fetches = IF isLoading THEN 1 ELSE 0
    /\ serverTasks = 0
    /\ title = ""
    /\ isExpanded = FALSE
    /\ isSubmitting = FALSE
    /\ posts = <<>>
    /\ filter = "all"
    /\ runs = <<NewRun(uiActions)>>
    /\ isAutomatedAction = TRUE
    /\ executed = ZeroCounts(uiActions)
    /\ submits = 0
    /\ lastAct = NoAct
    /\ token = "tokA"
    /\ isAuthenticated = TRUE
    /\ user = "alice"
    /\ authLoading = FALSE
    /\ authOp = NoLogin
    /\ lastReq = Sent("chat", AuthToken(token), token)
    /\ fetchQ = IF isLoading THEN <<AuthToken(token)>> ELSE <<>>
    /\ tasksBy = IF isLoading THEN NoFetch ELSE AuthToken(token)
    /\ Idle

ExecutorStep(k) ==
    \/ ExecStart(k)
    \/ FinishAction(k)
    \/ ClickLookup(k)
    \/ FillFields(k)
    \/ EndBatch(k)
    \/ OnComplete(k)

NextBatch ==
    \/ \E k \in 1..MaxRuns : ExecStart(k)
    \/ \E k \in 1..MaxRuns : FinishAction(k)
    \/ \E k \in 1..MaxRuns : ClickLookup(k)
    \/ \E k \in 1..MaxRuns : FillFields(k)
    \/ \E k \in 1..MaxRuns : EndBatch(k)
    \/ \E k \in 1..MaxRuns : OnComplete(k)
    \/ \E ok \in BOOLEAN : FetchDone(ok)
    \/ Retry

\* the timers and promises of the executor always fire in the end
SpecBatch ==
    InitBatch /\ [][NextBatch]_vars /\ \A k \in 1..MaxRuns : WF_vars(ExecutorStep(k))

\* C18: a failing action does not stop the batch.  However the actions before
\* it failed (null, not an object, no type, unknown type, no element tagged
\* with the target, an error thrown), a run moves on by exactly one action at
\* a time; when its loop has ended every action of the batch was executed and
\* the later action has had its effect; and onComplete is called in the end,
\* which sets uiActions to null.
C18_FailingActionDoesNotStopBatch ==
    /\ [](\A k \in 1..Len(runs) :
            runs[k].ph = "fin"
              => /\ runs[k].i = Len(runs[k].acts) + 1
                 /\ OfCurrentBatch(runs[k]) => \A j \in DOMAIN executed : executed[j] >= 1
                 /\ title = LaterAction.data /\ isExpanded)
    /\ [][\A k \in 1..Len(runs) :
            runs[k].ph = "idle" /\ Len(runs') = Len(runs)
              => runs'[k].i \in {runs[k].i, runs[k].i + 1}]_vars
    /\ <>[](~uiActions.set /\ runs = <<>>)

\* the loop of a run ended after a first action that threw, with the title
\* filled in by the later action
C18_Witness ==
    \E k \in 1..Len(runs) :
        /\ runs[k].ph = "fin"
        /\ runs[k].acts[1] = Act("search", BadSelector, "q")
        /\ executed[1] >= 1
        /\ title = LaterAction.data


----------------------------------------------------------------------------
(* TaskList: the Complete / Reopen control of a task row                      *)

MaxCalls == 2       \* handleStatusChange calls in flight at once
MaxItems == 1       \* tasks in the list whose statuses are changed

\* the control rendered in a task row: `task.status !== 'done' ? ... : ...`
StatusControl(task) == IF task.status # "done" THEN "Complete" ELSE "Reopen"

\* a plausible slip: Reopen puts the task back in progress
NewStatus_InProgress(control) == IF control = "Complete" THEN "done" ELSE "in_progress"

\* the status the onClick of the control passes to handleStatusChange
NewStatus(control) == IF control = "Complete" THEN "done" ELSE "todo"

\* the rows rendered with their Complete/Reopen, Edit and Delete buttons:
\* the filtered tasks, but for the one that shows its edit form
Rows ==
    IF TaskListMounted
    THEN LET shown == FilteredTasks(taskList, filter)
         IN {shown[i] : i \in {j \in 1..Len(shown) : shown[j].id # editingTask}}
    ELSE {}

\* rev counts the status changes the server has made to the task
StatusLists ==
    UNION { { [i \in 1..n |-> [id |-> i, status |-> st[i], rev |-> 0]] :
              st \in [1..n -> Statuses] } : n \in 1..MaxItems }

InitStatus ==
    /\ taskList \in StatusLists
    /\ editingTask = 0
    /\ calls = <<>>
    /\ serverList = taskList
    /\ mountMode = "act"
    /\ ThemeSettled
    /\ filter = "all"
    /\ messages = <<"welcome">> /\ input = "" /\ loading = FALSE /\ uiActions = NoBatch
    /\ assistantMode = "act" /\ chatReq = NoChat /\ timers = 0
    /\ mode = "act" /\ lsMode = "null"
    /\ tasks = Len(taskList) /\ isLoading = FALSE /\ error = "" /\ fetches = 0
    /\ fetchQ = <<>> /\ tasksBy = "tokA"
    /\ serverTasks = Len(taskList)
    /\ title = "" /\ isExpanded = FALSE /\ isSubmitting = FALSE /\ posts = <<>>
    /\ runs = <<>> /\ isAutomatedAction = FALSE /\ executed = <<>> /\ submits = 0
    /\ lastAct = NoAct
    /\ token = "tokA" /\ isAuthenticated = TRUE /\ user = "alice"
    /\ authLoading = FALSE /\ authOp = NoLogin
    /\ lastReq = NoReq /\ status = NoStatus
    /\ routed = [n |-> 0, category |-> "none", replay |-> FALSE, refresh |-> FALSE]

RemoveCall(c) == SubSeq(calls, 1, c - 1) \o SubSeq(calls, c + 1, Len(calls))

\* the Complete or Reopen button of a row: handleStatusChange(task.id, ...)
\* up to the await of its GET
StatusClick(t) ==
    /\ t \in Rows
    /\ Len(calls) < MaxCalls
    /\ calls' = Append(calls, [id |-> t.id, control |-> StatusControl(t),
                               newStatus |-> NewStatus(StatusControl(t)), st |-> "get"])
    /\ lastReq' = Sent("get", AuthToken(token), token)
    /\ UNCHANGED <<taskList, editingTask, serverList, status, mountMode, themeVars>>
    /\ UNCHANGED <<chatVars, modeVars, appVars, formVars, filter, execVars, authVars, routed>>

\* the GET resolves: not ok alerts and returns, ok sends the PATCH with
\* { status: newStatus }
StatusGot(c, ok) ==
    /\ c \in 1..Len(calls)
    /\ calls[c].st = "get"
    /\ IF ok
       THEN /\ calls' = [calls EXCEPT ![c].st = "patch"]
            /\ lastReq' = Sent("patch", AuthToken(token), token)
       ELSE /\ calls' = RemoveCall(c)
            /\ UNCHANGED lastReq
    /\ UNCHANGED <<taskList, editingTask, serverList, status, mountMode, themeVars>>
    /\ UNCHANGED <<chatVars, modeVars, appVars, formVars, filter, execVars, authVars, routed>>

\* the server sets the status of the task (rev tells no changes, one, and
\* two or more apart)
Patched(ts, id, st) ==
    [i \in 1..Len(ts) |->
        IF ts[i].id = id /\ ts[i].status # st
        THEN [ts[i] EXCEPT !.status = st, !.rev = Min(@ + 1, 2)]
        ELSE ts[i]]

\* the PATCH resolves: ok calls onTaskUpdate() -> fetchTasks, and TaskList is
\* unmounted for 'Loading tasks...' (its filter and editingTask are those of
\* its next mount); not ok alerts
StatusPatched(c, ok) ==
    /\ c \in 1..Len(calls)
    /\ calls[c].st = "patch"
    /\ calls' = RemoveCall(c)
    /\ IF ok
       THEN /\ serverList' = Patched(serverList, calls[c].id, calls[c].newStatus)
            /\ FetchStart
            /\ filter' = "all"
            /\ editingTask' = 0
            /\ IF AppChanged THEN RenderSame ELSE UNCHANGED execVars
       ELSE UNCHANGED <<serverList, appVars, filter, editingTask, lastReq, execVars>>
    /\ UNCHANGED <<taskList, status, mountMode, themeVars>>
    /\ UNCHANGED <<chatVars, modeVars, formVars, authVars, routed>>

\* fetchTasks resolves: setTasks(data) hands TaskList the server's list, or
\* setError(...) puts the error box in its place
TasksFetched(ok) ==
    /\ fetches > 0
    /\ fetches' = fetches - 1
    /\ \E i \in 1..Len(fetchQ) :
          /\ fetchQ' = SubSeq(fetchQ, 1, i - 1) \o SubSeq(fetchQ, i + 1, Len(fetchQ))
          /\ tasksBy' = IF ok THEN fetchQ[i] ELSE tasksBy
    /\ isLoading' = FALSE
    /\ IF ok
       THEN /\ tasks' = Len(serverList) /\ taskList' = serverList /\ error' = error
            /\ UNCHANGED <<filter, editingTask>>
       ELSE /\ error' = "Failed to fetch tasks" /\ tasks' = tasks /\ taskList' = taskList
            /\ filter' = "all" /\ editingTask' = 0
    /\ IF ok \/ AppChanged THEN RenderSame ELSE UNCHANGED execVars
    /\ UNCHANGED <<serverTasks, serverList, calls, mountMode, themeVars>>
    /\ UNCHANGED <<chatVars, modeVars, formVars, authVars, reqVars, routed>>

\* the Edit button of a row: handleEditClick
EditClick(t) ==
    /\ t \in Rows
    /\ editingTask' = t.id
    /\ UNCHANGED <<taskList, calls, serverList, mountMode, themeVars>>
    /\ UNCHANGED <<chatVars, modeVars, appVars, formVars, filter, execVars, authVars,
                   reqVars, routed>>

\* the Cancel button of the edit form: handleCancelEdit
CancelEdit ==
    /\ TaskListMounted
    /\ editingTask \in Ids(FilteredTasks(taskList, filter))
    /\ editingTask' = 0
    /\ UNCHANGED <<taskList, calls, serverList, mountMode, themeVars>>
    /\ UNCHANGED <<chatVars, modeVars, appVars, formVars, filter, execVars, authVars,
                   reqVars, routed>>

NextStatus ==
    \/ \E i \in 1..Len(taskList) : StatusClick(taskList[i])
    \/ \E c \in 1..MaxCalls : \E ok \in BOOLEAN : StatusGot(c, ok)
    \/ \E c \in 1..MaxCalls : \E ok \in BOOLEAN : StatusPatched(c, ok)
    \/ \E ok \in BOOLEAN : TasksFetched(ok)
    \/ Retry
    \/ \E f \in Filters : SetFilter(f)
    \/ \E i \in 1..Len(taskList) : EditClick(taskList[i])
    \/ CancelEdit

SpecStatus == InitStatus /\ [][NextStatus]_vars

\* C19: the task list offers two status transitions only.  Every call of
\* handleStatusChange asks for 'done' or 'todo', never 'in_progress'; a call
\* starts from a rendered row, from Complete exactly when the row's status is
\* not done (asking for 'done') and from Reopen exactly when it is done (asking
\* for 'todo'); so the server moves a task from done to todo and from anything
\* else to done only, and a task completed and then reopened is in 'todo'.
C19_TwoStatusTransitions ==
    /\ [](\A c \in 1..Len(calls) :
            /\ calls[c].newStatus \in {"done", "todo"}
            /\ calls[c].control = "Complete" <=> calls[c].newStatus = "done"
            /\ calls[c].control = "Reopen" <=> calls[c].newStatus = "todo")
    /\ [][Len(calls') > Len(calls)
            => LET c == calls'[Len(calls')]
               IN \E t \in Rows :
                     /\ t.id = c.id
                     /\ c.control = "Complete" <=> t.status # "done"
                     /\ c.control = "Reopen" <=> t.status = "done"]_vars
    /\ [][\A i \in 1..Len(serverList) :
            serverList'[i].status # serverList[i].status
              => serverList'[i].status = IF serverList[i].status = "done"
                                         THEN "todo" ELSE "done"]_vars
    /\ [](\A i \in 1..Len(serverList) :
            serverList[i].rev > 0 => serverList[i].status # "in_progress")

\* the server has changed the status of a task twice, to done and then to
\* todo, and the list still shows the task as done
C19_Witness ==
    \E i \in 1..Len(serverList) :
        /\ serverList[i].status = "todo" /\ serverList[i].rev = 2
        /\ Len(taskList) >= i /\ taskList[i].status = "done"


----------------------------------------------------------------------------
(* ThemeProvider: the theme, its toggle and localStorage 'theme'              *)

\* prevTheme === 'light' ? 'dark' : 'light'
OtherTheme(prevTheme) == IF prevTheme = "light" THEN "dark" ELSE "light"

\* the theme button of the header: toggleTheme, the re-render with the
\* queued updates applied, and the effect that stores the new theme
ToggleTheme ==
    /\ isAuthenticated
    /\ theme' = OtherTheme(CurrentTheme)
    /\ queuedTheme' = "none"
    /\ lsTheme' = theme'
    /\ IF theme' # theme THEN RenderSame ELSE UNCHANGED execVars
    /\ UNCHANGED <<prefersDark, savedAtMount>>
    /\ UNCHANGED <<taskList, editingTask, calls, serverList, mountMode>>
    /\ UNCHANGED <<chatVars, modeVars, appVars, formVars, filter, authVars, reqVars, routed>>

\* the re-render the mount effect asked for, and the effect that stores the
\* theme it renders
ThemeMounted ==
    /\ queuedTheme # "none"
    /\ theme' = queuedTheme
    /\ queuedTheme' = "none"
    /\ lsTheme' = theme'
    /\ IF theme' # theme THEN RenderSame ELSE UNCHANGED execVars
    /\ UNCHANGED <<prefersDark, savedAtMount>>
    /\ UNCHANGED <<taskList, editingTask, calls, serverList, mountMode>>
    /\ UNCHANGED <<chatVars, modeVars, appVars, formVars, filter, authVars, reqVars, routed>>

\* a page load with any saved theme, or none, under either system preference
InitTheme ==
    /\ \E saved \in {"null"} \cup Modes : \E held \in 0..MaxTasks : Loaded(saved, held)
    /\ token = "tokA"
    /\ isAuthenticated = TRUE
    /\ user = "alice"
    /\ authLoading = FALSE
    /\ authOp = NoLogin
    /\ lastReq = Sent("list", AuthToken(token), token)
    /\ fetchQ = <<AuthToken(token)>>
    /\ tasksBy = NoFetch
    /\ IdleTasks
    /\ \E saved \in {"null"} \cup Themes : \E dark \in BOOLEAN : ThemeFirstRender(saved, dark)

NextTheme ==
    \/ ToggleTheme
    \/ ThemeMounted
    \/ ToggleMode
    \/ Reload

SpecTheme == InitTheme /\ [][NextTheme]_vars

\* the theme a mount is to end in: the saved one, the system colour scheme
\* only when nothing is saved
ThemeToRestore(saved, dark) ==
    IF saved = "null" THEN (IF dark THEN "dark" ELSE "light") ELSE saved

\* C21: the theme toggles between light and dark and is remembered.  A toggle
\* moves the theme to the other of the two (so two toggles restore it); once
\* the mount has rendered its theme, localStorage 'theme' equals the theme
\* after every change; and a mount -- the first one and every reload -- ends
\* in the saved theme, or in the system preference when nothing was saved.
C21_ThemeTogglesAndPersists ==
    /\ CurrentTheme = ThemeToRestore(savedAtMount, prefersDark)
    /\ [](theme \in Themes /\ CurrentTheme \in Themes)
    /\ [][ToggleTheme => theme' # CurrentTheme]_vars
    /\ [](queuedTheme = "none" => lsTheme = theme)
    /\ [][Reload => /\ savedAtMount' = lsTheme
                    /\ CurrentTheme' = ThemeToRestore(lsTheme, prefersDark)]_vars
    /\ [][ThemeMounted => theme' = ThemeToRestore(savedAtMount, prefersDark)]_vars

\* dark was saved, and the mount has rendered the dark theme although the
\* system prefers light
C21_Witness ==
    /\ savedAtMount = "dark" /\ ~prefersDark
    /\ queuedTheme = "none" /\ theme = "dark" /\ lsTheme = "dark"

====
